---- MODULE Spec2Model ----
(***************************************************************************)
(* Deployment orchestration engine of grafana-ai-agent-platform:           *)
(*   - Step Executor   (services/deployment_executor.go)                   *)
(*   - Plan Generator  (services/helm_service.go, CreateDeploymentPlan)    *)
(*   - Value Composer  (services/helm_service.go, GenerateValues)          *)
(* Strings that the code takes apart (repository URLs, process output) are *)
(* sequences of atoms; documents are Go maps held in a heap of map objects *)
(* so that sharing between a document and its inputs is visible.           *)
(***************************************************************************)
EXTENDS Integers, Sequences, FiniteSets, TLC

VARIABLES
    \* ---- Step Executor: one record per call of ExecuteDeployment ----
    plan,          \* e -> the plan handed to ExecuteDeployment (sequence of steps)
    execution,     \* e -> the DeploymentExecution record being built
    pc,            \* e -> position of the call inside ExecuteDeployment
    idx,           \* e -> loop variable i of "for i := range execution.Steps" (1-based)
    ctxDone,       \* e -> the caller's context has been cancelled
    inflight,      \* e -> number of external processes started and not yet waited for
    calls,         \* e -> external operations invoked so far, as <<step index, operation>>
    valuesFile,    \* e -> name of the values file held by deployHelmChart ("" when none)
    \* ---- the host the executor runs on ----
    helmInstalled, \* exec.LookPath("helm") succeeds
    repoList,      \* repositories known to helm, in registration order
    files,         \* the files that exist under /tmp: name -> content
    now,           \* time.Now().Unix()
    \* ---- Value Composer and Plan Generator ----
    heap,          \* the Go maps that exist: address -> map object (key -> scalar or address)
    chart,         \* GenerateValues' chart: its Name and the address of chart.Values
    cluster,       \* the *agent.ClusterAnalysis handed in (NilCluster for a nil pointer)
    requirements,  \* address of the requirements map (Nil for a nil map)
    docs,          \* the input documents as they were written, before any call
    composed,      \* what the calls of GenerateValues returned, in call order
    search,        \* what SearchCharts hands to CreateDeploymentPlan
    planOut,       \* what CreateDeploymentPlan returned
    \* ---- Cluster Analyzer ----
    control,       \* the control plane: what each API call of AnalyzeCluster gets back
    analysis       \* what AnalyzeCluster returned

execVars == <<plan, execution, pc, idx, ctxDone, inflight, calls, valuesFile>>
hostVars == <<helmInstalled, repoList, files, now>>
valueVars == <<heap, chart, cluster, requirements, docs, composed>>
planVars == <<search, planOut>>
analyzerVars == <<control, analysis>>
vars == <<execVars, hostVars, valueVars, planVars, analyzerVars>>

----------------------------------------------------------------------------
(* Bounds *)
MaxSteps == 3      \* longest plan handed to the executor
MaxClock == 1      \* seconds the clock can advance during a run
MaxSubKeys == 2    \* keys a nested mapping of an input document can use
MaxCalls == 2      \* calls of GenerateValues on the same inputs
MaxHits == 4       \* longest result list of a registry search
MaxSpare == 2      \* spare capacity the decoder may leave behind a result list
MaxDepth == 2      \* nesting depth of the documents handed to mergeValues
MaxNodes == 3      \* nodes of a cluster whose resources are summed

Execs == {1}

(* Strings as sequences of atoms *)
GithubA == <<"https:", "/", "/", "github.com", "/", "a", "/", "charts">>
Bitnami == <<"bitnami">>
Repos   == {GithubA, Bitnami}

Contains(s, sub) ==
    \E i \in 0..(Len(s) - Len(sub)) : SubSeq(s, i + 1, i + Len(sub)) = sub

(* plan steps: agent.DeploymentStep restricted to the fields the executor reads *)
\* chart.Values is the document that belongs to the chart of that name
NoChart == [present |-> FALSE, Name |-> <<>>, Repository |-> <<>>, Values |-> <<>>]
ChartOf(name, repo) ==
    [present |-> TRUE, Name |-> name, Repository |-> repo, Values |-> <<"values of">> \o name]

\* Command values: "" (none), a blank string (only white space), a real command
Commands == {"", " ", "kubectl apply"}
Fields(command) == IF command = "kubectl apply" THEN <<"kubectl", "apply">> ELSE <<>>

StepShapes ==
    {[Chart |-> ChartOf(<<"kube-", "prometheus", "-stack">>, r), Command |-> ""] : r \in Repos}
    \cup {[Chart |-> NoChart, Command |-> c] : c \in Commands}
    \cup {[Chart |-> ChartOf(<<"Grafana">>, GithubA), Command |-> "kubectl apply"]}

IdSchemes1 == <<"step-1", "step-2", "step-3", "step-4">>
IdSchemes == {IdSchemes1, <<"db", "cache", "web", "proxy">>}

PlanOf(shapes, ids) ==
    [j \in 1..Len(shapes) |->
        [ID |-> ids[j], Chart |-> shapes[j].Chart, Command |-> shapes[j].Command]]

Plans ==
    {PlanOf(shapes, ids) :
        shapes \in UNION {[1..n -> StepShapes] : n \in 0..MaxSteps},
        ids \in IdSchemes}


----------------------------------------------------------------------------
(* The DeploymentExecution record (agent.go) and its updates *)

NumStr(i) == <<"1", "2", "3", "4", "5", "6">>[i]

NoError == [step |-> 0, err |-> <<>>]

NoExecution ==
    [Status |-> "none", hasEnd |-> FALSE, Steps |-> <<>>, Logs |-> <<>>, Error |-> NoError]

\* lines 28-46: the record as built before the loop
NewExecution(p) ==
    [Status |-> "running", hasEnd |-> FALSE,
     Steps  |-> [j \in 1..Len(p) |->
                    [StepID |-> p[j].ID, Status |-> "pending", hasStart |-> FALSE,
                     hasEnd |-> FALSE, Logs |-> <<>>, Error |-> <<>>]],
     Logs   |-> << <<"Starting deployment">> >>,
     Error  |-> NoError]

\* stepExec.Logs = append(stepExec.Logs, ...)
StepLog(ex, i, entries) == [ex EXCEPT !.Steps[i].Logs = @ \o entries]

\* lines 50-55
StepRunning(ex, i) ==
    [ex EXCEPT !.Steps[i].Status = "running",
               !.Steps[i].hasStart = TRUE,
               !.Logs = Append(@, <<"Executing step", NumStr(i), ex.Steps[i].StepID>>)]

\* lines 60-67: err != nil
StepFailed(ex, i, err) ==
    [ex EXCEPT !.Steps[i].Status = "failed",
               !.Steps[i].Error = err,
               !.Logs = Append(@, <<"Step", NumStr(i), "failed">> \o err),
               !.Status = "failed",
               !.Error = [step |-> i, err |-> err]]

\* line 65: fmt.Sprintf("Step %d failed: %v", i+1, err), the text of execution.Error
ErrorText(ex) ==
    IF ex.Error = NoError THEN <<>>
    ELSE <<"Step ", NumStr(ex.Error.step), " failed: ">> \o ex.Error.err

\* lines 69-73
StepCompleted(ex, i) ==
    [ex EXCEPT !.Steps[i].Status = "completed",
               !.Steps[i].hasEnd = TRUE,
               !.Logs = Append(@, <<"Step", NumStr(i), "completed successfully">>)]

\* lines 76-79
ExecutionCompleted(ex) ==
    [ex EXCEPT !.Status = "completed",
               !.hasEnd = TRUE,
               !.Logs = Append(@, <<"Deployment completed successfully">>)]

----------------------------------------------------------------------------
(* helm's repository list and extractRepoName *)

RECURSIVE RepoLines(_)
RepoLines(list) ==
    IF list = <<>> THEN <<>>
    ELSE Head(list).name \o <<"\t">> \o Head(list).url \o <<"\n">> \o RepoLines(Tail(list))

\* stdout of "helm repo list"
RepoListOutput(list) == <<"NAME", "\t", "URL", "\n">> \o RepoLines(list)

RECURSIVE Split(_, _)
Split(s, sep) ==
    IF \A k \in 1..Len(s) : s[k] # sep THEN <<s>>
    ELSE LET k == CHOOSE j \in 1..Len(s) : s[j] = sep /\ \A m \in 1..(j - 1) : s[m] # sep
         IN  <<SubSeq(s, 1, k - 1)>> \o Split(SubSeq(s, k + 1, Len(s)), sep)

extractRepoName(repoURL) ==
    IF Contains(repoURL, <<"github.com">>) /\ Len(Split(repoURL, "/")) >= 3
    THEN Split(repoURL, "/")[Len(Split(repoURL, "/"))]
    ELSE <<"repo">>

\* the pre-check of line 162 with the test left out: nothing counts as listed
AlreadyListedNever(output, repoURL) == FALSE
\* line 162: strings.Contains(string(output), repoURL)
AlreadyListed(output, repoURL) == Contains(output, repoURL)

\* "helm repo add name url" succeeding: a name already bound to another URL is refused
CanAdd(list, name, url) ==
    \A k \in 1..Len(list) : list[k].name = name => list[k].url = url

Added(list, name, url) ==
    IF \E k \in 1..Len(list) : list[k].name = name THEN list
    ELSE Append(list, [name |-> name, url |-> url])

----------------------------------------------------------------------------
(* External processes: what a finished process hands back *)

Exited  == [ok |-> TRUE,  out |-> <<"stdout">>, err |-> <<>>]
Crashed == [ok |-> FALSE, out |-> <<"stderr">>, err |-> <<"exit status 1">>]
Killed  == [ok |-> FALSE, out |-> <<"partial">>, err |-> <<"signal: killed">>]

\* a process started with exec.Command: the context cannot reach it
Outcomes == {Exited, Crashed}
\* a process started with exec.CommandContext: killed once the context is done
CtxOutcomes(e) == IF ctxDone[e] THEN {Exited, Crashed, Killed} ELSE {Exited, Crashed}

Spawn(e, op) ==
    /\ inflight' = [inflight EXCEPT ![e] = @ + 1]
    /\ calls' = [calls EXCEPT ![e] = Append(@, <<idx[e], op>>)]

\* Reap of a process that was started and never waited for
ReapNever(e) == inflight' = inflight

\* cmd.Run / cmd.Output / cmd.CombinedOutput return: the process has been waited for
Reap(e) == inflight' = [inflight EXCEPT ![e] = @ - 1]


----------------------------------------------------------------------------
(* ExecuteDeployment, one action per stretch of code between two waits *)

Step(e) == plan[e][idx[e]]

\* Fail with "break" in place of "return execution, nil": the code after the loop runs
FailBreak(e, ex, err) ==
    /\ execution' = [execution EXCEPT ![e] = StepFailed(ex, idx[e], err)]
    /\ pc' = [pc EXCEPT ![e] = "loop"]
    /\ idx' = [idx EXCEPT ![e] = Len(plan[e]) + 1]

\* Fail without the return: the loop goes on with the next step
FailContinue(e, ex, err) ==
    /\ execution' = [execution EXCEPT ![e] = StepFailed(ex, idx[e], err)]
    /\ pc' = [pc EXCEPT ![e] = "loop"]
    /\ idx' = [idx EXCEPT ![e] = @ + 1]

\* Fail followed by one more attempt at the step that failed
FailRetry(e, ex, err) ==
    /\ execution' = [execution EXCEPT ![e] = StepFailed(ex, idx[e], err)]
    /\ pc' = [pc EXCEPT ![e] = IF execution[e].Status = "failed" THEN "done" ELSE "run"]
    /\ idx' = idx

\* return from executeStep with an error, lines 60-66
Fail(e, ex, err) ==
    /\ execution' = [execution EXCEPT ![e] = StepFailed(ex, idx[e], err)]
    /\ pc' = [pc EXCEPT ![e] = "done"]
    /\ idx' = idx

\* return from executeStep without error, lines 116-117 and 69-73
Complete(e, ex) ==
    /\ execution' = [execution EXCEPT ![e] =
                        StepCompleted(StepLog(ex, idx[e], << <<"Completed">> >>), idx[e])]
    /\ pc' = [pc EXCEPT ![e] = "loop"]
    /\ idx' = [idx EXCEPT ![e] = @ + 1]

Goto(e, label) == pc' = [pc EXCEPT ![e] = label]

\* lines 27-46
ExecuteDeployment(e) ==
    /\ pc[e] = "idle"
    /\ UNCHANGED <<valueVars, planVars, analyzerVars>>
    /\ execution' = [execution EXCEPT ![e] = NewExecution(plan[e])]
    /\ idx' = [idx EXCEPT ![e] = 1]
    /\ Goto(e, "loop")
    /\ UNCHANGED <<plan, ctxDone, inflight, calls, valuesFile, hostVars>>

\* lines 49-55 and 87: the loop enters iteration i
BeginStep(e) ==
    /\ pc[e] = "loop"
    /\ UNCHANGED <<valueVars, planVars, analyzerVars>>
    /\ idx[e] <= Len(plan[e])
    /\ execution' = [execution EXCEPT ![e] =
                        StepLog(StepRunning(@, idx[e]), idx[e], << <<"Starting">> >>)]
    /\ Goto(e, "ensure")
    /\ UNCHANGED <<plan, idx, ctxDone, inflight, calls, valuesFile, hostVars>>

\* lines 76-81: the loop is over
Return(e) ==
    /\ pc[e] = "loop"
    /\ UNCHANGED <<valueVars, planVars, analyzerVars>>
    /\ idx[e] > Len(plan[e])
    /\ execution' = [execution EXCEPT ![e] = ExecutionCompleted(@)]
    /\ Goto(e, "done")
    /\ UNCHANGED <<plan, idx, ctxDone, inflight, calls, valuesFile, hostVars>>

\* lines 121-134: LookPath, then the download of installHelm is started
ensureHelmInstalled(e) ==
    /\ pc[e] = "ensure"
    /\ UNCHANGED <<valueVars, planVars, analyzerVars>>
    /\ IF helmInstalled
       THEN Goto(e, "repo") /\ UNCHANGED <<inflight, calls>>
       ELSE Goto(e, "download") /\ Spawn(e, "curl")
    /\ UNCHANGED <<plan, execution, idx, ctxDone, valuesFile, hostVars>>

BootstrapError(e, what, o) ==
    LET err == <<what>> \o o.err
    IN  Fail(e, StepLog(execution[e], idx[e], << <<"Helm installation check failed">> \o err >>),
             <<"helm not available">> \o err)

\* lines 135-140
DownloadExit(e) ==
    /\ pc[e] = "download"
    /\ UNCHANGED <<valueVars, planVars, analyzerVars>>
    /\ \E o \in Outcomes :
        IF o.ok
        THEN /\ Goto(e, "extract")
             /\ calls' = [calls EXCEPT ![e] = Append(@, <<idx[e], "tar">>)]
             /\ UNCHANGED <<execution, idx, inflight>>
        ELSE /\ BootstrapError(e, "failed to download helm", o)
             /\ Reap(e)
             /\ UNCHANGED calls
    /\ UNCHANGED <<plan, ctxDone, valuesFile, hostVars>>

\* lines 141-145
ExtractExit(e) ==
    /\ pc[e] = "extract"
    /\ UNCHANGED <<valueVars, planVars, analyzerVars>>
    /\ \E o \in Outcomes :
        IF o.ok
        THEN /\ Goto(e, "move")
             /\ calls' = [calls EXCEPT ![e] = Append(@, <<idx[e], "mv">>)]
             /\ UNCHANGED <<execution, idx, inflight>>
        ELSE /\ BootstrapError(e, "failed to extract helm", o)
             /\ Reap(e)
             /\ UNCHANGED calls
    /\ UNCHANGED <<plan, ctxDone, valuesFile, hostVars>>

\* lines 146-150
MoveExit(e) ==
    /\ pc[e] = "move"
    /\ UNCHANGED <<valueVars, planVars, analyzerVars>>
    /\ Reap(e)
    /\ \E o \in Outcomes :
        IF o.ok
        THEN /\ Goto(e, "repo")
             /\ helmInstalled' = TRUE
             /\ UNCHANGED <<execution, idx>>
        ELSE /\ BootstrapError(e, "failed to move helm", o)
             /\ UNCHANGED helmInstalled
    /\ UNCHANGED <<plan, ctxDone, calls, valuesFile, repoList, files, now>>

\* lines 96-97 and 156: a step with a chart starts "helm repo list"
addHelmRepository(e) ==
    /\ pc[e] = "repo"
    /\ UNCHANGED <<valueVars, planVars, analyzerVars>>
    /\ IF Step(e).Chart.present
       THEN Goto(e, "repoList") /\ Spawn(e, "repo list")
       ELSE Goto(e, "run") /\ UNCHANGED <<inflight, calls>>
    /\ UNCHANGED <<plan, execution, idx, ctxDone, valuesFile, hostVars>>

RepositoryError(e, what, o) ==
    LET err == <<"failed to add helm repository", what>> \o o.err
    IN  Fail(e, StepLog(execution[e], idx[e], << <<"Failed to add repository", what>> \o o.err >>),
             err)

RepositoryAdded(e) ==
    /\ execution' = [execution EXCEPT ![e] =
                        StepLog(@, idx[e], << <<"Added repository">> \o Step(e).Chart.Repository >>)]
    /\ Goto(e, "run")
    /\ UNCHANGED idx

\* lines 157-168
RepoListExit(e) ==
    /\ pc[e] = "repoList"
    /\ UNCHANGED <<valueVars, planVars, analyzerVars>>
    /\ \E o \in Outcomes :
        IF ~o.ok
        THEN RepositoryError(e, "failed to check helm repos", o) /\ Reap(e) /\ UNCHANGED calls
        ELSE IF AlreadyListed(RepoListOutput(repoList), Step(e).Chart.Repository)
        THEN RepositoryAdded(e) /\ Reap(e) /\ UNCHANGED calls
        ELSE /\ Goto(e, "repoAdd")
             /\ calls' = [calls EXCEPT ![e] = Append(@, <<idx[e], "repo add">>)]
             /\ UNCHANGED <<execution, idx, inflight>>
    /\ UNCHANGED <<plan, ctxDone, valuesFile, hostVars>>

\* lines 169-174
RepoAddExit(e) ==
    /\ pc[e] = "repoAdd"
    /\ UNCHANGED <<valueVars, planVars, analyzerVars>>
    /\ LET url  == Step(e).Chart.Repository
           name == extractRepoName(url)
       IN  \E o \in Outcomes :
            IF o.ok
            THEN /\ CanAdd(repoList, name, url)
                 /\ repoList' = Added(repoList, name, url)
                 /\ Goto(e, "repoUpdate")
                 /\ calls' = [calls EXCEPT ![e] = Append(@, <<idx[e], "repo update">>)]
                 /\ UNCHANGED <<execution, idx, inflight>>
            ELSE /\ RepositoryError(e, "failed to add helm repository", o)
                 /\ Reap(e)
                 /\ UNCHANGED <<calls, repoList>>
    /\ UNCHANGED <<plan, ctxDone, valuesFile, helmInstalled, files, now>>

\* lines 175-179 and 101
RepoUpdateExit(e) ==
    /\ pc[e] = "repoUpdate"
    /\ UNCHANGED <<valueVars, planVars, analyzerVars>>
    /\ Reap(e)
    /\ \E o \in Outcomes :
        IF o.ok
        THEN RepositoryAdded(e)
        ELSE RepositoryError(e, "failed to update helm repos", o)
    /\ UNCHANGED <<plan, ctxDone, calls, valuesFile, hostVars>>


NoFile == <<>>

\* os.WriteFile and os.Remove on the files under /tmp
WriteFile(fs, name, data) ==
    [n \in DOMAIN fs \cup {name} |-> IF n = name THEN data ELSE fs[n]]
\* cleanupValuesFile that removes nothing
RemoveNothing(fs, name) == fs
Remove(fs, name) == [n \in DOMAIN fs \ {name} |-> fs[n]]

\* lines 249-256: the content written for chart.Values
ValuesContent(values) == <<"# Generated values file">> \o values
\* line 259: the name createValuesFile gives the file at second t
createValuesFile(t) == <<"/tmp/values-", t, ".yaml">>

\* lines 224-234: executeCommand up to the start of the process
executeCommand(e, ex) ==
    LET ex1 == StepLog(ex, idx[e], << <<"Executing command", Step(e).Command>> >>)
    IN  IF Len(Fields(Step(e).Command)) = 0
        THEN /\ Fail(e, ex1, <<"command execution failed", "empty command">>)
             /\ UNCHANGED <<inflight, calls>>
        ELSE IF ctxDone[e]
        THEN /\ Fail(e, StepLog(ex1, idx[e], << <<"Command failed">> >>),
                     <<"command execution failed", "command execution failed", "context canceled">>)
             /\ UNCHANGED <<inflight, calls>>
        ELSE /\ execution' = [execution EXCEPT ![e] = ex1]
             /\ Goto(e, "command")
             /\ Spawn(e, "command")
             /\ UNCHANGED idx

\* lines 195-213: deployHelmChart up to the start of "helm install"
deployHelmChart(e, ex) ==
    \E written \in BOOLEAN :
        IF ~written
        THEN /\ Fail(e, ex, <<"helm deployment failed", "failed to create values file",
                              "failed to write values file", "write error">>)
             /\ UNCHANGED <<inflight, calls, valuesFile, files>>
        ELSE LET f   == createValuesFile(now)
                 ex1 == StepLog(ex, idx[e], << <<"Installing chart">> \o Step(e).Chart.Name
                                                  \o Step(e).Chart.Repository >>)
             IN  IF ctxDone[e]
                 THEN \* the process never starts; the deferred cleanup removes the file
                      /\ Fail(e, StepLog(ex1, idx[e], << <<"Helm install failed">> >>),
                              <<"helm deployment failed", "helm install failed", "context canceled">>)
                      /\ files' = Remove(files, f)
                      /\ UNCHANGED <<inflight, calls, valuesFile>>
                 ELSE /\ execution' = [execution EXCEPT ![e] = ex1]
                      /\ files' = WriteFile(files, f, ValuesContent(Step(e).Chart.Values))
                      /\ valuesFile' = [valuesFile EXCEPT ![e] = f]
                      /\ Goto(e, "install")
                      /\ Spawn(e, "install")
                      /\ UNCHANGED idx

\* lines 104-117: the command, else the chart, else nothing
runStep(e) ==
    /\ pc[e] = "run"
    /\ UNCHANGED <<valueVars, planVars, analyzerVars>>
    /\ IF Step(e).Command # ""
       THEN executeCommand(e, execution[e]) /\ UNCHANGED <<valuesFile, files>>
       ELSE IF Step(e).Chart.present
       THEN deployHelmChart(e, execution[e])
       ELSE Complete(e, execution[e]) /\ UNCHANGED <<inflight, calls, valuesFile, files>>
    /\ UNCHANGED <<plan, ctxDone, helmInstalled, repoList, now>>

\* lines 234-242
CommandExit(e) ==
    /\ pc[e] = "command"
    /\ UNCHANGED <<valueVars, planVars, analyzerVars>>
    /\ Reap(e)
    /\ \E o \in CtxOutcomes(e) :
        IF o.ok
        THEN Complete(e, StepLog(execution[e], idx[e], << <<"Command output">> \o o.out >>))
        ELSE Fail(e, StepLog(execution[e], idx[e], << <<"Command failed">> \o o.out >>),
                  <<"command execution failed", "command execution failed">> \o o.err)
    /\ UNCHANGED <<plan, ctxDone, calls, valuesFile, hostVars>>

\* lines 213-220, then the deferred cleanupValuesFile of line 201
InstallExit(e) ==
    /\ pc[e] = "install"
    /\ UNCHANGED <<valueVars, planVars, analyzerVars>>
    /\ Reap(e)
    /\ \E o \in CtxOutcomes(e) :
        IF o.ok
        THEN Complete(e, StepLog(execution[e], idx[e],
                                 << <<"Chart installed successfully">> \o o.out >>))
        ELSE Fail(e, StepLog(execution[e], idx[e], << <<"Helm install failed">> \o o.out >>),
                  <<"helm deployment failed", "helm install failed">> \o o.err)
    /\ files' = Remove(files, valuesFile[e])
    /\ valuesFile' = [valuesFile EXCEPT ![e] = NoFile]
    /\ UNCHANGED <<plan, ctxDone, calls, helmInstalled, repoList, now>>

\* the caller cancels the context it passed to ExecuteDeployment
Cancel(e) ==
    /\ pc[e] \notin {"idle", "done"}
    /\ UNCHANGED <<valueVars, planVars, analyzerVars>>
    /\ ~ctxDone[e]
    /\ ctxDone' = [ctxDone EXCEPT ![e] = TRUE]
    /\ UNCHANGED <<plan, execution, pc, idx, inflight, calls, valuesFile, hostVars>>

\* a second passes
Tick ==
    /\ now < MaxClock
    /\ UNCHANGED <<valueVars, planVars, analyzerVars>>
    /\ now' = now + 1
    /\ UNCHANGED <<execVars, helmInstalled, repoList, files>>

----------------------------------------------------------------------------
(* Values documents: map[string]interface{} *)

\* a document as written down: a scalar, or a mapping from keys to documents
S(x) == [t |-> "s", s |-> x, m |-> <<>>]
M(f) == [t |-> "m", s |-> "", m |-> f]
NilDoc == [t |-> "nil", s |-> "", m |-> <<>>]

\* what a Go map holds under a key: a scalar, or a reference to another map
Scalar(x) == [t |-> "s", s |-> x, r |-> 0]
Ref(a)    == [t |-> "r", s |-> "", r |-> a]
Nil == 0

\* statement order: e is computed first, then F is applied to its value
Then(e, F(_)) == CHOOSE r \in {F(x) : x \in {e}} : TRUE

Put(obj, k, v) == [x \in DOMAIN obj \cup {k} |-> IF x = k THEN v ELSE obj[x]]

\* a map literal: every nested map is a map object of its own
RECURSIVE Store(_, _), StoreKeys(_, _, _, _)
Store(h, f) ==
    LET r == StoreKeys(h, f, DOMAIN f, <<>>)
    IN  [h |-> Append(r.h, r.obj), a |-> Len(r.h) + 1]
StoreKeys(h, f, keys, obj) ==
    IF keys = {} THEN [h |-> h, obj |-> obj]
    ELSE LET k == CHOOSE x \in keys : TRUE
         IN  IF f[k].t = "s"
             THEN StoreKeys(h, f, keys \ {k}, Put(obj, k, Scalar(f[k].s)))
             ELSE LET c == Store(h, f[k].m)
                  IN  StoreKeys(c.h, f, keys \ {k}, Put(obj, k, Ref(c.a)))

\* the document a map object holds, read through its references
RECURSIVE View(_, _)
View(h, a) ==
    IF a = Nil THEN NilDoc
    ELSE M([k \in DOMAIN h[a] |->
              IF h[a][k].t = "s" THEN S(h[a][k].s) ELSE View(h, h[a][k].r)])

\* mergeValues with the recursion of line 260 left out: the source always overwrites
RECURSIVE mergeValuesShallow(_, _, _), mergeShallowKeys(_, _, _, _)
mergeValuesShallow(h, target, source) == mergeShallowKeys(h, target, source, DOMAIN h[source])
mergeShallowKeys(h, target, source, keys) ==
    IF keys = {} THEN h
    ELSE LET key == CHOOSE x \in keys : TRUE
         IN  mergeShallowKeys([h EXCEPT ![target] = Put(@, key, h[source][key])],
                              target, source, keys \ {key})

\* lines 254-268
RECURSIVE mergeValues(_, _, _), mergeKeys(_, _, _, _)
mergeValues(h, target, source) == mergeKeys(h, target, source, DOMAIN h[source])
mergeKeys(h, target, source, keys) ==
    IF keys = {} THEN h
    ELSE LET key   == CHOOSE x \in keys : TRUE
             value == h[source][key]
             both  == /\ key \in DOMAIN h[target]
                      /\ h[target][key].t = "r"
                      /\ value.t = "r"
         IN  Then(IF both
                  THEN mergeValues(h, h[target][key].r, value.r)
                  ELSE [h EXCEPT ![target] = Put(@, key, value)],
                  LAMBDA h1 : mergeKeys(h1, target, source, keys \ {key}))

\* mergeValues(values, <literal>)
MergeLiteral(h, values, literal) ==
    Then(Store(h, literal), LAMBDA c : mergeValues(c.h, values, c.a))

(* the snapshot: the fields of agent.ClusterAnalysis that the composer reads *)
NilCluster == [nil |-> TRUE, AvailableCPU |-> "", AvailableMemory |-> "",
               StorageClasses |-> <<>>, IngressAvailable |-> FALSE, RBACEnabled |-> FALSE]
ClusterOf(cpu, mem, classes, ingress, rbac) ==
    [nil |-> FALSE, AvailableCPU |-> cpu, AvailableMemory |-> mem,
     StorageClasses |-> classes, IngressAvailable |-> ingress, RBACEnabled |-> rbac]

\* lines 170-186
resourceConfig ==
    [resources |-> M([limits   |-> M([cpu |-> S("500m"), memory |-> S("512Mi")]),
                      requests |-> M([cpu |-> S("100m"), memory |-> S("128Mi")])])]
setResourceLimits(h, values) == MergeLiteral(h, values, resourceConfig)

\* lines 189-199
storageConfig(storageClasses) ==
    [persistence |-> M([storageClass |-> S(storageClasses[1])])]
configureStorage(h, values, storageClasses) ==
    IF Len(storageClasses) > 0 THEN MergeLiteral(h, values, storageConfig(storageClasses)) ELSE h

\* lines 202-212
ingressConfig ==
    [ingress |-> M([enabled     |-> S("true"),
                    annotations |-> M(("kubernetes.io/ingress.class" :> S("nginx")))])]
configureIngress(h, values) == MergeLiteral(h, values, ingressConfig)

\* lines 215-222
rbacConfig == [rbac |-> M([create |-> S("true")])]
configureRBAC(h, values) == MergeLiteral(h, values, rbacConfig)

\* lines 146-167; the caller has checked that c is no nil pointer
customizeForCluster(h, values, c) ==
    Then(IF c.AvailableCPU # "" /\ c.AvailableMemory # ""
         THEN setResourceLimits(h, values) ELSE h, LAMBDA h1 :
    Then(IF Len(c.StorageClasses) > 0
         THEN configureStorage(h1, values, c.StorageClasses) ELSE h1, LAMBDA h2 :
    Then(IF c.IngressAvailable THEN configureIngress(h2, values) ELSE h2, LAMBDA h3 :
         IF c.RBACEnabled THEN configureRBAC(h3, values) ELSE h3)))

\* lines 225-229
applyUserRequirements(h, values, req) ==
    IF req # Nil THEN mergeValues(h, values, req) ELSE h

\* strings.ToLower on the atoms of a chart name
ToLower(name) ==
    [j \in 1..Len(name) |-> IF name[j] = "Grafana" THEN "grafana" ELSE name[j]]

\* lines 234-239
securityConfig ==
    [securityContext |-> M([runAsNonRoot |-> S("true"), runAsUser |-> S("1000")])]
\* lines 244-248
monitoringConfig == [serviceMonitor |-> M([enabled |-> S("true")])]

IsMonitoring(chartName) ==
    \/ Contains(ToLower(chartName), <<"prometheus">>)
    \/ Contains(ToLower(chartName), <<"grafana">>)

\* applyBestPractices that leaves a securityContext it finds as it is
applyBestPracticesIfAbsent(h, values, chartName) ==
    Then(IF "securityContext" \in DOMAIN h[values] THEN h
         ELSE MergeLiteral(h, values, securityConfig), LAMBDA h1 :
         IF IsMonitoring(chartName) THEN MergeLiteral(h1, values, monitoringConfig) ELSE h1)

\* lines 232-251
applyBestPractices(h, values, chartName) ==
    Then(MergeLiteral(h, values, securityConfig), LAMBDA h1 :
         IF IsMonitoring(chartName) THEN MergeLiteral(h1, values, monitoringConfig) ELSE h1)

\* GenerateValues with the requirements applied before the cluster-derived layer
GenerateValuesUserFirst(h, ch, c, req) ==
    LET values == Len(h) + 1
        h0 == Append(h, IF ch.Values # Nil THEN h[ch.Values] ELSE <<>>)
    IN  IF c.nil
        THEN [panic |-> TRUE, h |-> h0, values |-> Nil]
        ELSE Then(applyUserRequirements(h0, values, req), LAMBDA h1 :
             Then(customizeForCluster(h1, values, c), LAMBDA h2 :
             Then(applyBestPractices(h2, values, ch.Name), LAMBDA h3 :
                  [panic |-> FALSE, h |-> h3, values |-> values])))

\* GenerateValues with the last two layers swapped: the requirements are applied last
GenerateValuesUserLast(h, ch, c, req) ==
    LET values == Len(h) + 1
        h0 == Append(h, IF ch.Values # Nil THEN h[ch.Values] ELSE <<>>)
    IN  IF c.nil
        THEN [panic |-> TRUE, h |-> h0, values |-> Nil]
        ELSE Then(customizeForCluster(h0, values, c), LAMBDA h1 :
             Then(applyBestPractices(h1, values, ch.Name), LAMBDA h2 :
             Then(applyUserRequirements(h2, values, req), LAMBDA h3 :
                  [panic |-> FALSE, h |-> h3, values |-> values])))

\* lines 122-143: [panic] for the nil dereference of line 148, else the new heap
\* and the address of the returned map
GenerateValues(h, ch, c, req) ==
    LET values == Len(h) + 1
        h0 == Append(h, IF ch.Values # Nil THEN h[ch.Values] ELSE <<>>)
    IN  IF c.nil
        THEN [panic |-> TRUE, h |-> h0, values |-> Nil]
        ELSE Then(customizeForCluster(h0, values, c), LAMBDA h1 :
             Then(applyUserRequirements(h1, values, req), LAMBDA h2 :
             Then(applyBestPractices(h2, values, ch.Name), LAMBDA h3 :
                  [panic |-> FALSE, h |-> h3, values |-> values])))

\* no call of AnalyzeCluster is under way
NoControl == [config |-> FALSE, version |-> [ok |-> FALSE, GitVersion |-> ""],
              nodes |-> [ok |-> FALSE, items |-> <<>>],
              storageClasses |-> [ok |-> FALSE, items |-> <<>>],
              namespaces |-> [ok |-> FALSE], probes |-> <<>>]
NoAnalysis == [state |-> "none"]
AnalyzerIdle == control = NoControl /\ analysis = NoAnalysis

\* CreateDeploymentPlan returns (nil, err) or (plan, nil)
NilPlan == [nil |-> TRUE, Steps |-> <<>>, Charts |-> <<>>]
NoOutcome == [state |-> "none", plan |-> NilPlan, err |-> <<>>]

Init ==
    /\ plan \in [Execs -> Plans]
    /\ execution = [e \in Execs |-> NoExecution]
    /\ pc = [e \in Execs |-> "idle"]
    /\ idx = [e \in Execs |-> 0]
    /\ ctxDone = [e \in Execs |-> FALSE]
    /\ inflight = [e \in Execs |-> 0]
    /\ calls = [e \in Execs |-> <<>>]
    /\ valuesFile = [e \in Execs |-> NoFile]
    /\ helmInstalled \in BOOLEAN
    /\ repoList \in {<<>>, <<[name |-> <<"bitnami">>, url |-> <<"https:", "/", "/", "charts.bitnami.com">>]>>}
    /\ files = [n \in {} |-> <<>>]
    /\ now = 0
    /\ heap = <<>>
    /\ chart = [Name |-> <<>>, Values |-> Nil]
    /\ cluster = NilCluster
    /\ requirements = Nil
    /\ docs = [defaults |-> NilDoc, overrides |-> NilDoc]
    /\ composed = <<>>
    /\ search = [ok |-> FALSE, charts |-> <<>>, cap |-> 0]
    /\ planOut = NoOutcome
    /\ AnalyzerIdle

Next ==
    \/ \E e \in Execs :
        \/ ExecuteDeployment(e)
        \/ BeginStep(e)
        \/ Return(e)
        \/ ensureHelmInstalled(e)
        \/ DownloadExit(e)
        \/ ExtractExit(e)
        \/ MoveExit(e)
        \/ addHelmRepository(e)
        \/ RepoListExit(e)
        \/ RepoAddExit(e)
        \/ RepoUpdateExit(e)
        \/ runStep(e)
        \/ CommandExit(e)
        \/ InstallExit(e)
        \/ Cancel(e)
    \/ Tick

Spec == Init /\ [][Next]_vars


----------------------------------------------------------------------------
(* Value Composer: GenerateValues called on bounded input documents *)

TopKeys == {"securityContext", "serviceMonitor"}
SubKeyNames == <<"runAsNonRoot", "enabled", "fsGroup">>
SubKeys == {SubKeyNames[j] : j \in 1..(IF MaxSubKeys < 3 THEN MaxSubKeys ELSE 3)}

\* documents of depth <= 2 whose scalars all are x
NestedOver(x) == {M(f) : f \in UNION {[K -> {S(x)}] : K \in SUBSET SubKeys}}
DocsOver(x) ==
    {M(f) : f \in UNION {[K -> {S(x)} \cup NestedOver(x)] : K \in SUBSET TopKeys}}

DefaultDocs  == DocsOver("100m") \cup {NilDoc}
OverrideDocs == DocsOver("false") \cup {NilDoc}

ChartNames == {<<"kube-", "prometheus", "-stack">>, <<"redis">>}

EmptyCluster == ClusterOf("", "", <<>>, FALSE, FALSE)
FullCluster  == ClusterOf("8", "16Gi", <<"standard", "fast">>, TRUE, TRUE)

\* the input documents as Go maps
Loaded(d) ==
    LET c1 == IF d.defaults.t = "nil" THEN [h |-> <<>>, a |-> Nil]
              ELSE Store(<<>>, d.defaults.m)
        c2 == IF d.overrides.t = "nil" THEN [h |-> c1.h, a |-> Nil]
              ELSE Store(c1.h, d.overrides.m)
    IN  [h |-> c2.h, defaults |-> c1.a, overrides |-> c2.a]

ExecutorIdle ==
    /\ plan = [e \in Execs |-> <<>>]
    /\ execution = [e \in Execs |-> NoExecution]
    /\ pc = [e \in Execs |-> "idle"]
    /\ idx = [e \in Execs |-> 0]
    /\ ctxDone = [e \in Execs |-> FALSE]
    /\ inflight = [e \in Execs |-> 0]
    /\ calls = [e \in Execs |-> <<>>]
    /\ valuesFile = [e \in Execs |-> NoFile]
    /\ helmInstalled = FALSE
    /\ repoList = <<>>
    /\ files = [n \in {} |-> <<>>]
    /\ now = 0

ValuesInit ==
    /\ ExecutorIdle
    /\ AnalyzerIdle
    /\ docs \in [defaults : DefaultDocs, overrides : OverrideDocs]
    /\ heap = Loaded(docs).h
    /\ \E name \in ChartNames : chart = [Name |-> name, Values |-> Loaded(docs).defaults]
    /\ requirements = Loaded(docs).overrides
    /\ cluster \in {NilCluster, EmptyCluster, FullCluster}
    /\ composed = <<>>
    /\ search = [ok |-> FALSE, charts |-> <<>>, cap |-> 0]
    /\ planOut = NoOutcome

\* a caller of GenerateValues, lines 122-143
Compose ==
    /\ Len(composed) < MaxCalls
    /\ LET r == GenerateValues(heap, chart, cluster, requirements)
       IN  /\ heap' = r.h
           /\ composed' = Append(composed, [panic |-> r.panic, values |-> r.values])
    /\ UNCHANGED <<chart, cluster, requirements, docs, search, planOut, execVars, hostVars, analyzerVars>>

ValuesNext == Compose

ValuesSpec == ValuesInit /\ [][ValuesNext]_vars

\* the documents GenerateValues has returned
Returned == {n \in 1..Len(composed) : ~composed[n].panic}
Final(n) == View(heap, composed[n].values).m

\* the best-practice layer for the chart at hand, lines 234-249
BestPractices ==
    IF IsMonitoring(chart.Name)
    THEN [securityContext |-> securityConfig.securityContext,
          serviceMonitor  |-> monitoringConfig.serviceMonitor]
    ELSE securityConfig

\* C9 as stated: for every key present in both the best-practice layer and the
\* user overrides, the composed document holds the best-practice layer's value.
C9_BestPracticeKeyWins ==
    \A n \in Returned :
        docs.overrides.t = "m" =>
            \A k \in DOMAIN BestPractices \cap DOMAIN docs.overrides.m :
                Final(n)[k] = BestPractices[k]

\* C9 amended: for every key path at which the best-practice layer holds a
\* scalar and which is present in the user overrides, the composed document
\* holds the best-practice value at that path.
C9_BestPracticeLeafWins ==
    \A n \in Returned :
        docs.overrides.t = "m" =>
            \A k \in DOMAIN BestPractices \cap DOMAIN docs.overrides.m :
                \A j \in DOMAIN BestPractices[k].m :
                    (docs.overrides.m[k].t = "m" /\ j \in DOMAIN docs.overrides.m[k].m)
                        => /\ Final(n)[k].t = "m"
                           /\ j \in DOMAIN Final(n)[k].m
                           /\ Final(n)[k].m[j] = BestPractices[k].m[j]

C9_Witness ==
    /\ Returned # {}
    /\ docs.overrides.t = "m"
    /\ "securityContext" \in DOMAIN docs.overrides.m
    /\ docs.overrides.m["securityContext"] = M([runAsNonRoot |-> S("false")])
    /\ Final(1)["securityContext"].m["runAsNonRoot"] = S("true")

\* C10: every document GenerateValues returns has securityContext.runAsNonRoot
\* = true, whatever the defaults, the snapshot and the user overrides hold.
C10_RunAsNonRoot ==
    \A n \in Returned :
        /\ "securityContext" \in DOMAIN Final(n)
        /\ Final(n)["securityContext"].t = "m"
        /\ "runAsNonRoot" \in DOMAIN Final(n)["securityContext"].m
        /\ Final(n)["securityContext"].m["runAsNonRoot"] = S("true")

C10_Witness ==
    /\ Len(composed) = 2
    /\ Returned = {1, 2}
    /\ docs.overrides.t = "m"
    /\ docs.defaults.t = "m"
    /\ "securityContext" \in DOMAIN docs.overrides.m
    /\ "securityContext" \in DOMAIN docs.defaults.m
    /\ docs.overrides.m["securityContext"] = S("false")
    /\ docs.defaults.m["securityContext"] = M([runAsNonRoot |-> S("100m")])

\* C13: after GenerateValues has returned, the chart's default values document
\* and the user-overrides document, nested mappings included, are what they
\* were before the call, and two calls on the same inputs return equal documents.
C13_InputsUnchanged ==
    Returned # {} =>
        /\ View(heap, chart.Values) = docs.defaults
        /\ View(heap, requirements) = docs.overrides
        /\ \A n, m \in Returned :
               View(heap, composed[n].values) = View(heap, composed[m].values)

----------------------------------------------------------------------------
(* mergeValues on its own: applyUserRequirements hands it any two documents *)

MergeKeys == {"a", "b"}
EmptyMap == M([k \in {} |-> S("")])

\* documents nested up to depth d under "a", all of whose scalars are x
RECURSIVE NestedDocs(_, _)
NestedDocs(d, x) ==
    IF d = 0 THEN {}
    ELSE {M(f) : f \in UNION {
            {g \in [K -> {S(x), EmptyMap} \cup NestedDocs(d - 1, x)] :
                "b" \in K => g["b"] \in {S(x), EmptyMap}} : K \in SUBSET MergeKeys}}

MergeInit ==
    /\ ExecutorIdle
    /\ AnalyzerIdle
    /\ docs \in [defaults : NestedDocs(MaxDepth, "t"), overrides : NestedDocs(MaxDepth, "s")]
    /\ heap = Loaded(docs).h
    /\ chart = [Name |-> <<>>, Values |-> Loaded(docs).defaults]
    /\ requirements = Loaded(docs).overrides
    /\ cluster = NilCluster
    /\ composed = <<>>
    /\ search = [ok |-> FALSE, charts |-> <<>>, cap |-> 0]
    /\ planOut = NoOutcome

\* lines 225-229 called with values = chart.Values
ApplyUser ==
    /\ composed = <<>>
    /\ heap' = applyUserRequirements(heap, chart.Values, requirements)
    /\ composed' = <<[panic |-> FALSE, values |-> chart.Values]>>
    /\ UNCHANGED <<chart, cluster, requirements, docs, search, planOut, execVars, hostVars, analyzerVars>>

MergeNext == ApplyUser

MergeSpec == MergeInit /\ [][MergeNext]_vars

\* the merge of two documents as it is specified
RECURSIVE Merge(_, _)
Merge(target, source) ==
    M([k \in DOMAIN target.m \cup DOMAIN source.m |->
         IF k \notin DOMAIN source.m THEN target.m[k]
         ELSE IF k \in DOMAIN target.m /\ target.m[k].t = "m" /\ source.m[k].t = "m"
         THEN Merge(target.m[k], source.m[k])
         ELSE source.m[k]])

\* C11: after mergeValues(target, source) the target holds the specified merge:
\* keys of source whose values are mappings on both sides are merged
\* recursively, every other key of source replaces the target's, and keys of
\* the target that source lacks keep their value.
C11_MergeIsRecursive ==
    composed # <<>> =>
        View(heap, composed[1].values) = Merge(docs.defaults, docs.overrides)

C11_Witness ==
    /\ composed # <<>>
    /\ docs.defaults = M([a |-> M([b |-> S("t")]), b |-> EmptyMap])
    /\ docs.overrides = M([a |-> M([a |-> S("s")]), b |-> S("s")])
    /\ View(heap, composed[1].values) = M([a |-> M([a |-> S("s"), b |-> S("t")]), b |-> S("s")])

----------------------------------------------------------------------------
(* GenerateValues on documents that meet the cluster-derived layer *)

LayerTopKeys == {"ingress", "securityContext"}
LayerSubKeys == {"enabled", "runAsNonRoot", "className"}

LayerNested(x) == {M(f) : f \in UNION {[K -> {S(x)}] : K \in SUBSET LayerSubKeys}}
LayerDocs(x) ==
    {M(f) : f \in UNION {[K -> {S(x)} \cup LayerNested(x)] : K \in SUBSET LayerTopKeys}}

LayerInit ==
    /\ ExecutorIdle
    /\ AnalyzerIdle
    /\ docs \in [defaults : LayerDocs("100m") \cup {NilDoc},
                 overrides : LayerDocs("false") \cup {NilDoc}]
    /\ heap = Loaded(docs).h
    /\ \E name \in ChartNames : chart = [Name |-> name, Values |-> Loaded(docs).defaults]
    /\ requirements = Loaded(docs).overrides
    /\ cluster \in {EmptyCluster, FullCluster}
    /\ composed = <<>>
    /\ search = [ok |-> FALSE, charts |-> <<>>, cap |-> 0]
    /\ planOut = NoOutcome

LayerSpec == LayerInit /\ [][ValuesNext]_vars

\* the cluster-derived layer as one document, lines 146-222
NoKeys == [k \in {} |-> NilDoc]
ClusterLayer(c) ==
    M((IF c.AvailableCPU # "" /\ c.AvailableMemory # "" THEN resourceConfig ELSE NoKeys)
      @@ (IF Len(c.StorageClasses) > 0 THEN storageConfig(c.StorageClasses) ELSE NoKeys)
      @@ (IF c.IngressAvailable THEN ingressConfig ELSE NoKeys)
      @@ (IF c.RBACEnabled THEN rbacConfig ELSE NoKeys))

\* what the layers before the user overrides amount to
Earlier == Merge(IF docs.defaults.t = "nil" THEN EmptyMap ELSE docs.defaults, ClusterLayer(cluster))

\* the best-practice layer holds a value at key k, or at k.j
InBestPractices(k, j) ==
    /\ k \in DOMAIN BestPractices
    /\ j # "" => j \in DOMAIN BestPractices[k].m

\* the scenario: defaults, cluster layer and user overrides merged in that order
LayerExample ==
    LET d  == Store(<<>>, [resources |-> M([cpu |-> S("100m")])])
        c  == Store(d.h, [resources |-> M([memory |-> S("256Mi")])])
        u  == Store(c.h, [resources |-> M([cpu |-> S("250m")])])
        h1 == mergeValues(u.h, d.a, c.a)
        h2 == mergeValues(h1, d.a, u.a)
    IN  View(h2, d.a) = M([resources |-> M([cpu |-> S("250m"), memory |-> S("256Mi")])])

\* C12: every scalar the user overrides hold at a path where the best-practice
\* layer holds nothing is in the composed document at that path, also where
\* the defaults or the cluster-derived layer hold a value there; next to such
\* a scalar, the keys that only the earlier layers hold keep the earlier
\* layers' value; and the scenario of the three resources documents comes out
\* as {cpu: 250m, memory: 256Mi}.
C12_LayerOrder ==
    /\ LayerExample
    /\ \A n \in Returned :
         docs.overrides.t = "m" =>
            \A k \in DOMAIN docs.overrides.m :
                LET u == docs.overrides.m[k]
                IN  IF u.t = "s"
                    THEN ~InBestPractices(k, "") => Final(n)[k] = u
                    ELSE /\ \A j \in DOMAIN u.m :
                              ~InBestPractices(k, j) =>
                                  /\ Final(n)[k].t = "m"
                                  /\ j \in DOMAIN Final(n)[k].m
                                  /\ Final(n)[k].m[j] = u.m[j]
                         /\ (k \in DOMAIN Earlier.m /\ Earlier.m[k].t = "m") =>
                              \A j \in DOMAIN Earlier.m[k].m \ DOMAIN u.m :
                                  ~InBestPractices(k, j) =>
                                      /\ j \in DOMAIN Final(n)[k].m
                                      /\ Final(n)[k].m[j] = Earlier.m[k].m[j]

C12_Witness ==
    /\ Returned # {}
    /\ cluster = FullCluster
    /\ docs.defaults = M([ingress |-> M([enabled |-> S("100m"), className |-> S("100m")])])
    /\ docs.overrides = M([ingress |-> M([enabled |-> S("false")])])
    /\ Final(1)["ingress"] =
           M([enabled |-> S("false"), className |-> S("100m"),
              annotations |-> ingressConfig.ingress.m["annotations"]])

----------------------------------------------------------------------------
(* Plan Generator: CreateDeploymentPlan *)

\* ChartSearchResult, lines 29-44, and its zero value
Hit(name, repo, version) == [Name |-> name, Repository |-> repo, Version |-> version]
ZeroHit == Hit(<<>>, <<>>, "")

HitPool == {Hit(<<"kube-", "prometheus", "-stack">>, GithubA, "25.0.0"),
            Hit(<<"Grafana">>, Bitnami, "7.0.0"),
            Hit(<<"redis">>, Bitnami, "18.1.0")}

\* line 309 with the bound off by one: charts[:2]
TopK2 == 3 - 1
\* line 309: "Limit to top 3 charts"
TopK == 3

\* line 278 with the test inverted away: never true
NoChartsNever(charts) == FALSE
\* line 278
NoCharts(charts) == Len(charts) = 0

\* charts[:TopK] on a slice of capacity >= TopK: the elements behind len(charts)
\* are the zero values the decoder's allocation left there
TopCharts(charts) == [j \in 1..TopK |-> IF j <= Len(charts) THEN charts[j] ELSE ZeroHit]

\* lines 310-335: one iteration; acc carries the heap, the plan so far and panic
planStep(acc, i, hit, c) ==
    LET h0 == Append(acc.h, <<>>)
        helmChart == [present |-> TRUE, Name |-> hit.Name, Repository |-> hit.Repository,
                      Version |-> hit.Version, Values |-> Len(h0)]
    IN  IF acc.panic THEN acc
        ELSE Then(GenerateValues(h0, helmChart, c, Nil), LAMBDA g :
             LET bound == [helmChart EXCEPT !.Values = g.values]
                 step  == [ID |-> <<"step-", NumStr(i)>>, Chart |-> bound, Command |-> "",
                           Status |-> "pending"]
             IN  IF g.panic
                 THEN [acc EXCEPT !.panic = TRUE]
                 ELSE [panic |-> FALSE, h |-> g.h,
                       Charts |-> Append(acc.Charts, bound),
                       Steps |-> Append(acc.Steps, step)])

RECURSIVE planLoop(_, _, _, _)
planLoop(acc, i, top, c) ==
    IF i > Len(top) THEN acc
    ELSE Then(planStep(acc, i, top[i], c), LAMBDA a : planLoop(a, i + 1, top, c))

\* lines 271-339: the outcome and the heap it leaves
CreateDeploymentPlan(h, c, srch) ==
    IF ~srch.ok
    THEN [state |-> "returned", plan |-> NilPlan, err |-> <<"failed to search charts">>, h |-> h]
    ELSE IF NoCharts(srch.charts)
    THEN [state |-> "returned", plan |-> NilPlan, err |-> <<"no charts found for stack">>, h |-> h]
    ELSE IF srch.cap < TopK
    THEN \* slice bounds out of range [:3] with capacity srch.cap
         [state |-> "panicked", plan |-> NilPlan, err |-> <<>>, h |-> h]
    ELSE LET r == planLoop([panic |-> FALSE, h |-> h, Charts |-> <<>>, Steps |-> <<>>],
                           1, TopCharts(srch.charts), c)
         IN  IF r.panic
             THEN [state |-> "panicked", plan |-> NilPlan, err |-> <<>>, h |-> r.h]
             ELSE [state |-> "returned",
                   plan |-> [nil |-> FALSE, Steps |-> r.Steps, Charts |-> r.Charts],
                   err |-> <<>>, h |-> r.h]

\* what SearchCharts can hand back, lines 47-72: an error, or a list whose
\* capacity is whatever the JSON decoder's growth left
Searches ==
    {[ok |-> FALSE, charts |-> <<>>, cap |-> 0]}
    \cup {[ok |-> TRUE, charts |-> cs, cap |-> Len(cs) + spare] :
            cs \in UNION {[1..n -> HitPool] : n \in 0..MaxHits}, spare \in 0..MaxSpare}

PlanInit ==
    /\ ExecutorIdle
    /\ AnalyzerIdle
    /\ heap = <<>>
    /\ chart = [Name |-> <<>>, Values |-> Nil]
    /\ requirements = Nil
    /\ docs = [defaults |-> NilDoc, overrides |-> NilDoc]
    /\ composed = <<>>
    /\ cluster \in {NilCluster, EmptyCluster, FullCluster}
    /\ search \in Searches
    /\ planOut = NoOutcome

\* createDeploymentPlan of the handler (handlers/agent.go 421-448) calls it once
CreatePlan ==
    /\ planOut.state = "none"
    /\ LET r == CreateDeploymentPlan(heap, cluster, search)
       IN  /\ planOut' = [state |-> r.state, plan |-> r.plan, err |-> r.err]
           /\ heap' = r.h
    /\ UNCHANGED <<chart, cluster, requirements, docs, composed, search, execVars, hostVars, analyzerVars>>

PlanNext == CreatePlan

PlanSpec == PlanInit /\ [][PlanNext]_vars

Called == planOut.state # "none"

BoundTo(step, hit, i) ==
    /\ step.ID = <<"step-", NumStr(i)>>
    /\ step.Chart.present
    /\ step.Chart.Name = hit.Name
    /\ step.Chart.Repository = hit.Repository
    /\ step.Chart.Version = hit.Version

\* C5: with a snapshot and a search that returns 3 or more candidates, the plan
\* has exactly 3 steps and step i is bound to the i-th search result.
C5_TopThree ==
    (Called /\ ~cluster.nil /\ search.ok /\ Len(search.charts) >= 3) =>
        /\ planOut.state = "returned"
        /\ planOut.err = <<>>
        /\ ~planOut.plan.nil
        /\ Len(planOut.plan.Steps) = 3
        /\ \A i \in 1..3 : BoundTo(planOut.plan.Steps[i], search.charts[i], i)

C5_Witness ==
    /\ planOut.state = "returned"
    /\ ~cluster.nil
    /\ Len(search.charts) = 4
    /\ search.charts[1] # search.charts[2]
    /\ search.charts[2] # search.charts[3]
    /\ Len(planOut.plan.Steps) = 3

\* C6: with a snapshot and a search that returns 1 or 2 candidates, the plan has
\* exactly that many steps, bound to the candidates in the registry's order.
C6_FewerThanThree ==
    (Called /\ ~cluster.nil /\ search.ok /\ Len(search.charts) \in {1, 2}) =>
        /\ planOut.state = "returned"
        /\ ~planOut.plan.nil
        /\ Len(planOut.plan.Steps) = Len(search.charts)
        /\ \A i \in 1..Len(search.charts) :
               BoundTo(planOut.plan.Steps[i], search.charts[i], i)

\* C7: a search with zero candidates makes CreateDeploymentPlan return the
\* no-match error and no plan; whenever it returns an error it returns no plan.
C7_NoMatchNoPlan ==
    /\ (Called /\ search.ok /\ Len(search.charts) = 0) =>
           /\ planOut.state = "returned"
           /\ planOut.err = <<"no charts found for stack">>
           /\ planOut.plan.nil
    /\ (planOut.state = "returned" /\ planOut.err # <<>>) => planOut.plan.nil

C7_Witness ==
    /\ planOut.state = "returned"
    /\ search.ok
    /\ Len(search.charts) = 0
    /\ planOut.err # <<>>

\* the layer customizeForCluster adds is absent from the document at address a
NoClusterLayer(a) ==
    DOMAIN View(heap, a).m \cap {"resources", "persistence", "ingress", "rbac"} = {}

\* C8: without a snapshot and with at least one candidate, CreateDeploymentPlan
\* returns a plan whose values documents carry no cluster-derived customization.
C8_SnapshotOptional ==
    (Called /\ cluster.nil /\ search.ok /\ Len(search.charts) >= 1) =>
        /\ planOut.state = "returned"
        /\ ~planOut.plan.nil
        /\ Len(planOut.plan.Steps) >= 1
        /\ \A i \in 1..Len(planOut.plan.Steps) :
               NoClusterLayer(planOut.plan.Steps[i].Chart.Values)

----------------------------------------------------------------------------
(* Step Executor: properties *)

StepMoves == {<<"pending", "running">>, <<"running", "completed">>, <<"running", "failed">>}
ExecMoves == {<<"none", "running">>, <<"running", "completed">>, <<"running", "failed">>}

\* C1: a step's status only moves pending -> running -> completed|failed, the
\* execution's status only running -> completed|failed; nothing moves once it is
\* completed or failed, and no step leaves pending except to running.
C1_StatusMonotonic ==
    [][\A e \in Execs :
          /\ \/ execution'[e].Status = execution[e].Status
             \/ <<execution[e].Status, execution'[e].Status>> \in ExecMoves
          /\ \A j \in DOMAIN execution[e].Steps :
                \/ execution'[e].Steps[j].Status = execution[e].Steps[j].Status
                \/ <<execution[e].Steps[j].Status, execution'[e].Steps[j].Status>> \in StepMoves
      ]_vars

C1_Witness ==
    \E e \in Execs :
        /\ pc[e] = "done"
        /\ Len(execution[e].Steps) >= 2
        /\ execution[e].Status = "failed"
        /\ execution[e].Steps[1].Status = "completed"
        /\ execution[e].Steps[2].Status = "failed"

CalledFor(e, j) == \E k \in 1..Len(calls[e]) : calls[e][k][1] = j

\* C2: when step k of an n-step plan has failed (k < n), every step k+1..n is
\* pending, no external operation was invoked for it, and the execution is failed.
C2_LaterStepsStayPending ==
    \A e \in Execs : \A k \in DOMAIN execution[e].Steps :
        execution[e].Steps[k].Status = "failed" =>
            /\ execution[e].Status = "failed"
            /\ \A j \in DOMAIN execution[e].Steps :
                   j > k => execution[e].Steps[j].Status = "pending" /\ ~CalledFor(e, j)

C2_Witness ==
    \E e \in Execs :
        /\ pc[e] = "done"
        /\ Len(execution[e].Steps) = 3
        /\ execution[e].Steps[1].Status = "failed"
        /\ CalledFor(e, 1)
        /\ execution[e].Steps[3].Status = "pending"

BootstrapFailed(e) ==
    /\ execution[e].Error.err # <<>>
    /\ Head(execution[e].Error.err) = "helm not available"

\* C3: when helm is missing and the bootstrap install fails, the execution is
\* failed and every step of the returned record is still pending.
C3_BootstrapAbortsBeforeSteps ==
    \A e \in Execs :
        (pc[e] = "done" /\ BootstrapFailed(e)) =>
            /\ execution[e].Status = "failed"
            /\ \A j \in DOMAIN execution[e].Steps : execution[e].Steps[j].Status = "pending"

\* C4: at most one step is running, at most one external process of the
\* execution is in flight, and a step has left pending only if its predecessor
\* is completed.
C4_Sequential ==
    \A e \in Execs :
        /\ Cardinality({j \in DOMAIN execution[e].Steps :
                            execution[e].Steps[j].Status = "running"}) <= 1
        /\ inflight[e] <= 1
        /\ \A j \in DOMAIN execution[e].Steps :
               (j > 1 /\ execution[e].Steps[j].Status # "pending")
                   => execution[e].Steps[j - 1].Status = "completed"

C4_Witness ==
    \E e \in Execs :
        /\ Len(execution[e].Steps) >= 2
        /\ execution[e].Steps[1].Status = "completed"
        /\ execution[e].Steps[2].Status = "running"
        /\ inflight[e] = 1
        /\ CalledFor(e, 1)

\* the call of addHelmRepository made for step j returned nil
Registered(e, j) ==
    \E k \in 1..Len(execution[e].Steps[j].Logs) :
        execution[e].Steps[j].Logs[k] = <<"Added repository">> \o plan[e][j].Chart.Repository

HasCall(e, j, op) == \E k \in 1..Len(calls[e]) : calls[e][k] = <<j, op>>

\* step j calls addHelmRepository with a source that an earlier call, which
\* returned nil, was given
SecondCall(e, j) ==
    /\ plan[e][j].Chart.present
    /\ HasCall(e, j, "repo list")
    /\ \E i \in 1..(j - 1) :
           /\ plan[e][i].Chart.present
           /\ plan[e][i].Chart.Repository = plan[e][j].Chart.Repository
           /\ Registered(e, i)

InRepositoryPhase(e, j) ==
    idx[e] = j /\ pc[e] \in {"repoList", "repoAdd", "repoUpdate"}

C15_ValuesFileRemoved ==
    \A e \in Execs :
        /\ pc[e] # "install" => (DOMAIN files = {} /\ valuesFile[e] = NoFile)
        /\ pc[e] = "install" => DOMAIN files = {valuesFile[e]}

StepError(e, j) == execution[e].Steps[j].Error

C15_Witness ==
    \E e \in Execs :
        /\ pc[e] = "done"
        /\ Len(plan[e]) = 3
        /\ HasCall(e, 1, "install") /\ execution[e].Steps[1].Status = "completed"
        /\ HasCall(e, 2, "install") /\ execution[e].Steps[2].Status = "completed"
        /\ HasCall(e, 3, "install") /\ Contains(StepError(e, 3), Killed.err)
        /\ DOMAIN files = {}

\* the combined output captured from the process step j ran, when that process
\* ended in an error: the step's log keeps it (lines 215 and 237)
FailureLogs == {"Helm install failed", "Command failed"}
CapturedOnFailure(e, j) ==
    LET logs == execution[e].Steps[j].Logs
    IN  IF logs # <<>> /\ Head(logs[Len(logs)]) \in FailureLogs
        THEN Tail(logs[Len(logs)]) ELSE <<>>

\* C17: a helm install or raw command that ends in an error makes its step
\* failed, and the step's error text and the execution's error text both hold
\* the output captured from the process.
C17_ErrorEmbedsOutput ==
    \A e \in Execs : \A j \in DOMAIN execution[e].Steps :
        CapturedOnFailure(e, j) # <<>> =>
            /\ execution[e].Steps[j].Status = "failed"
            /\ Contains(StepError(e, j), CapturedOnFailure(e, j))
            /\ Contains(ErrorText(execution[e]), CapturedOnFailure(e, j))

\* C18: once a step has failed nothing more is invoked and the record stays as
\* it is (completed steps stay completed, nothing is uninstalled or re-run),
\* and no operation is invoked twice for the same step.
C18_NoRetryNoRollback ==
    /\ [][\A e \in Execs :
            execution[e].Status = "failed" =>
                (calls'[e] = calls[e] /\ execution'[e] = execution[e])]_vars
    /\ [](\A e \in Execs : \A k1, k2 \in 1..Len(calls[e]) :
            calls[e][k1] = calls[e][k2] => k1 = k2)

C18_Witness ==
    \E e \in Execs :
        /\ pc[e] = "done"
        /\ execution[e].Status = "failed"
        /\ Len(plan[e]) = 3
        /\ HasCall(e, 1, "install") /\ execution[e].Steps[1].Status = "completed"
        /\ HasCall(e, 2, "command") /\ execution[e].Steps[2].Status = "completed"
        /\ HasCall(e, 3, "install") /\ execution[e].Steps[3].Status = "failed"

\* C19: when ExecuteDeployment has returned a failed execution, exactly one
\* step is failed, every step before it is completed, every step after it is
\* pending, and the text of execution.Error holds that step's StepID.
C19_ErrorNamesFailedStep ==
    \A e \in Execs :
        (pc[e] = "done" /\ execution[e].Status = "failed") =>
            \E k \in DOMAIN execution[e].Steps :
                /\ \A j \in DOMAIN execution[e].Steps :
                       execution[e].Steps[j].Status =
                           IF j < k THEN "completed" ELSE IF j = k THEN "failed" ELSE "pending"
                /\ Contains(ErrorText(execution[e]), <<execution[e].Steps[k].StepID>>)

----------------------------------------------------------------------------
(* Two calls of ExecuteDeployment at the same time, one goroutine per HTTP *)
(* request, on the same host                                               *)

Pair == {1, 2}

ConcShapes ==
    {[Chart |-> ChartOf(<<"kube-", "prometheus", "-stack">>, GithubA), Command |-> ""],
     [Chart |-> ChartOf(<<"redis">>, Bitnami), Command |-> ""],
     [Chart |-> NoChart, Command |-> "kubectl apply"]}

ConcPlans == {PlanOf(<<shape>>, IdSchemes1) : shape \in ConcShapes}

ConcInit ==
    /\ plan \in [Pair -> ConcPlans]
    /\ execution = [e \in Pair |-> NoExecution]
    /\ pc = [e \in Pair |-> "idle"]
    /\ idx = [e \in Pair |-> 0]
    /\ ctxDone = [e \in Pair |-> FALSE]
    /\ inflight = [e \in Pair |-> 0]
    /\ calls = [e \in Pair |-> <<>>]
    /\ valuesFile = [e \in Pair |-> NoFile]
    /\ helmInstalled \in BOOLEAN
    /\ repoList = <<>>
    /\ files = [n \in {} |-> <<>>]
    /\ now = 0
    /\ heap = <<>>
    /\ chart = [Name |-> <<>>, Values |-> Nil]
    /\ cluster = NilCluster
    /\ requirements = Nil
    /\ docs = [defaults |-> NilDoc, overrides |-> NilDoc]
    /\ composed = <<>>
    /\ search = [ok |-> FALSE, charts |-> <<>>, cap |-> 0]
    /\ planOut = NoOutcome
    /\ AnalyzerIdle

ConcNext ==
    \/ \E e \in Pair :
        \/ ExecuteDeployment(e)
        \/ BeginStep(e)
        \/ Return(e)
        \/ ensureHelmInstalled(e)
        \/ DownloadExit(e)
        \/ ExtractExit(e)
        \/ MoveExit(e)
        \/ addHelmRepository(e)
        \/ RepoListExit(e)
        \/ RepoAddExit(e)
        \/ RepoUpdateExit(e)
        \/ runStep(e)
        \/ CommandExit(e)
        \/ InstallExit(e)
        \/ Cancel(e)
    \/ Tick

ConcSpec == ConcInit /\ [][ConcNext]_vars

\* C16: while the helm install of a step invocation is running, the values
\* file it was given exists and holds what that invocation wrote, whatever
\* other invocations do, also when they started within the same second.
C16_ArtifactExclusive ==
    \A e \in DOMAIN pc :
        pc[e] = "install" =>
            /\ valuesFile[e] \in DOMAIN files
            /\ files[valuesFile[e]] = ValuesContent(Step(e).Chart.Values)

----------------------------------------------------------------------------
(* Termination of ExecuteDeployment *)

LivePlans ==
    {PlanOf(shapes, IdSchemes1) : shapes \in UNION {[1..n -> StepShapes] : n \in 1..2}}

LiveInit ==
    /\ plan \in [Execs -> LivePlans]
    /\ execution = [e \in Execs |-> NoExecution]
    /\ pc = [e \in Execs |-> "idle"]
    /\ idx = [e \in Execs |-> 0]
    /\ ctxDone = [e \in Execs |-> FALSE]
    /\ inflight = [e \in Execs |-> 0]
    /\ calls = [e \in Execs |-> <<>>]
    /\ valuesFile = [e \in Execs |-> NoFile]
    /\ helmInstalled \in BOOLEAN
    /\ repoList = <<>>
    /\ files = [n \in {} |-> <<>>]
    /\ now = 0
    /\ heap = <<>>
    /\ chart = [Name |-> <<>>, Values |-> Nil]
    /\ cluster = NilCluster
    /\ requirements = Nil
    /\ docs = [defaults |-> NilDoc, overrides |-> NilDoc]
    /\ composed = <<>>
    /\ search = [ok |-> FALSE, charts |-> <<>>, cap |-> 0]
    /\ planOut = NoOutcome
    /\ AnalyzerIdle

\* the goroutine that runs ExecuteDeployment keeps running
Goroutine(e) ==
    \/ ExecuteDeployment(e) \/ BeginStep(e) \/ Return(e)
    \/ ensureHelmInstalled(e) \/ addHelmRepository(e) \/ runStep(e)

\* the commands of the bootstrap and of the repository registration finish
HelperExit(e) ==
    \/ DownloadExit(e) \/ ExtractExit(e) \/ MoveExit(e)
    \/ RepoListExit(e) \/ RepoAddExit(e) \/ RepoUpdateExit(e)

\* "helm install" ends by itself: it is run with --timeout 10m (line 208).
\* The raw command is given no timeout (line 233): it surely ends only when
\* the context is done and exec.CommandContext kills it.
LiveSpec ==
    /\ LiveInit
    /\ [][Next]_vars
    /\ \A e \in Execs :
        /\ WF_vars(Goroutine(e))
        /\ WF_vars(HelperExit(e))
        /\ WF_vars(InstallExit(e))
        /\ WF_vars(ctxDone[e] /\ CommandExit(e))

\* C20: every execution eventually is completed or failed, also when its
\* processes do not exit by themselves and the context is never done.
C20_EveryExecutionEnds ==
    \A e \in Execs : <>(execution[e].Status \in {"completed", "failed"})

\* C29: every terminal record carries an end timestamp: a step that is
\* completed or failed has its EndTime set, and so has an execution that is
\* completed or failed.
C29_TerminalHasEndTime ==
    \A e \in Execs :
        /\ execution[e].Status \in {"completed", "failed"} => execution[e].hasEnd
        /\ \A i \in DOMAIN execution[e].Steps :
            execution[e].Steps[i].Status \in {"completed", "failed"}
                => execution[e].Steps[i].hasEnd

----------------------------------------------------------------------------
(* Cancellation of the parent context while a process is in flight *)

\* the caller cancels ctx while ExecuteDeployment waits for a process
CancelInFlight(e) ==
    /\ inflight[e] > 0
    /\ Cancel(e)

CancelNext ==
    \/ \E e \in Execs :
        \/ Goroutine(e)
        \/ HelperExit(e)
        \/ CommandExit(e)
        \/ InstallExit(e)
        \/ CancelInFlight(e)
    \/ Tick

CancelSpec == LiveInit /\ [][CancelNext]_vars

\* C21: once the parent context has been cancelled while a process was in
\* flight, the execution starts no further process and no later step: every
\* step that is pending stays pending.
C21_CancelStopsExecution ==
    [][\A e \in Execs :
        ctxDone[e] =>
            /\ calls'[e] = calls[e]
            /\ \A j \in DOMAIN execution[e].Steps :
                execution[e].Steps[j].Status = "pending"
                    => execution'[e].Steps[j].Status = "pending"]_vars

----------------------------------------------------------------------------
(* Registration of several repositories by one execution *)

GithubB  == <<"https:", "/", "/", "github.com", "/", "b", "/", "charts">>
Jetstack == <<"https:", "/", "/", "charts.jetstack.io">>
Elastic  == <<"https:", "/", "/", "helm.elastic.co">>
RepoPool == {GithubA, GithubB, Jetstack, Elastic}

RepoShapes ==
    {[Chart |-> ChartOf(<<"redis">>, r), Command |-> ""] : r \in RepoPool}
    \cup {[Chart |-> NoChart, Command |-> "kubectl apply"]}

RepoPlans ==
    {PlanOf(shapes, IdSchemes1) : shapes \in UNION {[1..n -> RepoShapes] : n \in 1..2}}

RepoInit ==
    /\ plan \in [Execs -> RepoPlans]
    /\ execution = [e \in Execs |-> NoExecution]
    /\ pc = [e \in Execs |-> "idle"]
    /\ idx = [e \in Execs |-> 0]
    /\ ctxDone = [e \in Execs |-> FALSE]
    /\ inflight = [e \in Execs |-> 0]
    /\ calls = [e \in Execs |-> <<>>]
    /\ valuesFile = [e \in Execs |-> NoFile]
    /\ helmInstalled \in BOOLEAN
    /\ repoList = <<>>
    /\ files = [n \in {} |-> <<>>]
    /\ now = 0
    /\ heap = <<>>
    /\ chart = [Name |-> <<>>, Values |-> Nil]
    /\ cluster = NilCluster
    /\ requirements = Nil
    /\ docs = [defaults |-> NilDoc, overrides |-> NilDoc]
    /\ composed = <<>>
    /\ search = [ok |-> FALSE, charts |-> <<>>, cap |-> 0]
    /\ planOut = NoOutcome
    /\ AnalyzerIdle

RepoSpec == RepoInit /\ [][Next]_vars

\* C30: two different repositories are never registered under the same name:
\* whenever "helm repo add" is issued, the name derived from the URL is bound
\* to no other URL in helm's repository list.
C30_NamesNeverClash ==
    \A e \in Execs :
        pc[e] = "repoAdd" =>
            CanAdd(repoList, extractRepoName(Step(e).Chart.Repository),
                   Step(e).Chart.Repository)

----------------------------------------------------------------------------
(* The cluster-derived layer over the snapshots a caller can hand in *)

\* every snapshot over the fields customizeForCluster reads; the one that
\* createDeploymentPlan builds has empty Resources and StorageClasses, ingress
\* available and Security.RBACEnabled false
Snapshots ==
    {ClusterOf(cpu, mem, classes, ingress, rbac) :
        cpu \in {"", "8"}, mem \in {"", "16Gi"},
        classes \in {<<>>, <<"standard", "fast">>},
        ingress \in BOOLEAN, rbac \in BOOLEAN}

SnapshotInit ==
    /\ ExecutorIdle
    /\ AnalyzerIdle
    /\ docs = [defaults |-> NilDoc, overrides |-> NilDoc]
    /\ heap = Loaded(docs).h
    /\ \E name \in ChartNames : chart = [Name |-> name, Values |-> Loaded(docs).defaults]
    /\ requirements = Loaded(docs).overrides
    /\ cluster \in Snapshots
    /\ composed = <<>>
    /\ search = [ok |-> FALSE, charts |-> <<>>, cap |-> 0]
    /\ planOut = NoOutcome

SnapshotSpec == SnapshotInit /\ [][ValuesNext]_vars

\* C27: for every snapshot the composed document holds the fixed default
\* resource block (also when the available CPU or memory is empty), holds
\* persistence.storageClass = the first storage class exactly when one was
\* discovered, the ingress block exactly when ingress is available, and
\* rbac.create = true exactly when RBAC is enabled.
C27_ClusterLayerAsSpecified ==
    \A n \in Returned :
        LET f == Final(n)
        IN  /\ "resources" \in DOMAIN f
            /\ f["resources"] = resourceConfig.resources
            /\ "persistence" \in DOMAIN f <=> Len(cluster.StorageClasses) > 0
            /\ "persistence" \in DOMAIN f =>
                    f["persistence"] = M([storageClass |-> S(cluster.StorageClasses[1])])
            /\ "ingress" \in DOMAIN f <=> cluster.IngressAvailable
            /\ "ingress" \in DOMAIN f => f["ingress"] = ingressConfig.ingress
            /\ "rbac" \in DOMAIN f <=> cluster.RBACEnabled
            /\ "rbac" \in DOMAIN f => f["rbac"] = M([create |-> S("true")])

----------------------------------------------------------------------------
(* Cluster Analyzer: resource.Quantity *)

\* A quantity is held in thousandths of its unit: 1500 is "1500m", 4000 is "4".

\* Quantity.String(): the canonical form, whole units without suffix
String(q) ==
    IF q % 1000 = 0 THEN [digits |-> q \div 1000, suffix |-> ""]
    ELSE [digits |-> q, suffix |-> "m"]

\* the quantity a canonical string denotes
ParseQuantity(str) == IF str.suffix = "m" THEN str.digits ELSE str.digits * 1000

\* Quantity.Value(): the value in whole units, rounded up away from zero
Value(q) == IF q >= 0 THEN (q + 999) \div 1000 ELSE 0 - ((999 - q) \div 1000)

\* Add that keeps the operand only, and Sub with its operands exchanged
AddLast(q, y) == y
SubReversed(q, y) == y - q

\* Quantity.Add and Quantity.Sub
Add(q, y) == q + y
Sub(q, y) == q - y

\* ResourceList.Cpu() / Memory() / StorageEphemeral(): the zero quantity for a
\* resource the list does not hold
ResourceOf(list, name) == IF name \in DOMAIN list THEN list[name] ELSE 0

\* Go's integer division: a zero divisor is a run-time panic
Quot(a, b) ==
    IF b = 0 THEN [panic |-> TRUE, v |-> 0] ELSE [panic |-> FALSE, v |-> a \div b]

\* lines 151-154 without the test of line 152
PercentageUnguarded(capacity, allocatable) ==
    Quot(Value(allocatable) * 100, Value(capacity))

\* lines 151-154
Percentage(capacity, allocatable) ==
    IF Value(capacity) > 0
    THEN Quot(Value(allocatable) * 100, Value(capacity))
    ELSE [panic |-> FALSE, v |-> 0]

\* lines 133-163; Cpu(), Memory() and StorageEphemeral() never return nil
analyzeResource(capacity, allocatable) ==
    LET used == Sub(capacity, allocatable)
        percentage == Percentage(capacity, allocatable)
    IN  [panic |-> percentage.panic,
         info  |-> [Capacity    |-> String(capacity),
                    Allocatable |-> String(allocatable),
                    Used        |-> String(used),
                    Percentage  |-> percentage.v]]

----------------------------------------------------------------------------
(* Cluster Analyzer: AnalyzeCluster *)

Resources == {"cpu", "memory", "ephemeral-storage"}

\* lines 100-105
RoleOf(labels) ==
    IF "node-role.kubernetes.io/control-plane" \in labels THEN "control-plane"
    ELSE IF "node-role.kubernetes.io/master" \in labels THEN "master"
    ELSE "worker"

\* lines 96-130: the first node whose analysis panics ends the call
RECURSIVE analyzeNodes(_)
analyzeNodes(nodes) ==
    IF nodes = <<>> THEN [panic |-> "", infos |-> <<>>]
    ELSE LET node    == Head(nodes)
             cpu     == analyzeResource(ResourceOf(node.Capacity, "cpu"),
                                        ResourceOf(node.Allocatable, "cpu"))
             memory  == analyzeResource(ResourceOf(node.Capacity, "memory"),
                                        ResourceOf(node.Allocatable, "memory"))
             storage == analyzeResource(ResourceOf(node.Capacity, "ephemeral-storage"),
                                        ResourceOf(node.Allocatable, "ephemeral-storage"))
         IN  IF cpu.panic \/ memory.panic \/ storage.panic
             THEN [panic |-> "integer divide by zero", infos |-> <<>>]
             ELSE IF Len(node.Conditions) = 0
             THEN [panic |-> "index out of range [-1]", infos |-> <<>>]
             ELSE LET rest == analyzeNodes(Tail(nodes))
                      info == [Role    |-> RoleOf(node.Labels),
                               Status  |-> node.Conditions[Len(node.Conditions)],
                               CPU     |-> cpu.info,
                               Memory  |-> memory.info,
                               Storage |-> storage.info]
                  IN  IF rest.panic # "" THEN rest
                      ELSE [panic |-> "", infos |-> <<info>> \o rest.infos]

\* lines 170-190: the loop over the nodes
RECURSIVE Totals(_, _)
Totals(nodes, acc) ==
    IF nodes = <<>> THEN acc
    ELSE LET node == Head(nodes)
         IN  Totals(Tail(nodes),
                [totalCPU         |-> Add(acc.totalCPU, ResourceOf(node.Capacity, "cpu")),
                 availableCPU     |-> Add(acc.availableCPU, ResourceOf(node.Allocatable, "cpu")),
                 totalMemory      |-> Add(acc.totalMemory, ResourceOf(node.Capacity, "memory")),
                 availableMemory  |-> Add(acc.availableMemory, ResourceOf(node.Allocatable, "memory")),
                 totalStorage     |-> Add(acc.totalStorage,
                                          ResourceOf(node.Capacity, "ephemeral-storage")),
                 availableStorage |-> Add(acc.availableStorage,
                                          ResourceOf(node.Allocatable, "ephemeral-storage"))])

\* lines 166-201
analyzeClusterResources(nodes) ==
    LET t == Totals(nodes, [totalCPU |-> 0, availableCPU |-> 0, totalMemory |-> 0,
                            availableMemory |-> 0, totalStorage |-> 0, availableStorage |-> 0])
    IN  [TotalCPU         |-> String(t.totalCPU),
         TotalMemory      |-> String(t.totalMemory),
         TotalStorage     |-> String(t.totalStorage),
         AvailableCPU     |-> String(t.availableCPU),
         AvailableMemory  |-> String(t.availableMemory),
         AvailableStorage |-> String(t.availableStorage)]

\* The API calls of the probes. A call is denied (err != nil), or it returns
\* a list: "empty" without, "found" with the items the probe looks for (any
\* item; for services one of type LoadBalancer; for the secrets of
\* kube-system one whose name contains "helm" or "tiller").
ErrProbes == {"kube-system", "clusterroles", "networkpolicies",
              "podsecuritypolicies", "secrets"}
ItemProbes == {"kube-system secrets", "ingresses", "services", "persistentvolumes"}
ProbeNames == ErrProbes \cup ItemProbes

Ok(c, p) == c.probes[p] # "denied"
Found(c, p) == c.probes[p] = "found"

\* lines 204-262
analyzeClusterCapabilities(c) ==
    [HelmInstalled    |-> Ok(c, "kube-system") /\ Found(c, "kube-system secrets"),
     IngressAvailable |-> Found(c, "ingresses"),
     LoadBalancer     |-> Found(c, "services"),
     PersistentVolume |-> Found(c, "persistentvolumes"),
     RBACEnabled      |-> Ok(c, "clusterroles"),
     NetworkPolicy    |-> Ok(c, "networkpolicies")]

\* analyzeSecurity that returns at the first probe that fails
analyzeSecurityAbort(c) ==
    [RBACEnabled       |-> Ok(c, "clusterroles"),
     PodSecurityPolicy |-> Ok(c, "clusterroles") /\ Ok(c, "podsecuritypolicies"),
     NetworkPolicy     |-> /\ Ok(c, "clusterroles") /\ Ok(c, "podsecuritypolicies")
                           /\ Ok(c, "networkpolicies"),
     SecretsEnabled    |-> /\ Ok(c, "clusterroles") /\ Ok(c, "podsecuritypolicies")
                           /\ Ok(c, "networkpolicies") /\ Ok(c, "secrets")]

\* lines 265-294
analyzeSecurity(c) ==
    [RBACEnabled       |-> Ok(c, "clusterroles"),
     PodSecurityPolicy |-> Ok(c, "podsecuritypolicies"),
     NetworkPolicy     |-> Ok(c, "networkpolicies"),
     SecretsEnabled    |-> Ok(c, "secrets")]

\* lines 297-303
detectNetworkPolicy(c) ==
    IF Ok(c, "networkpolicies") THEN "supported" ELSE "not-supported"

Failed(what) == [state |-> "failed", err |-> what]

\* lines 26-93
AnalyzeClusterResult(c) ==
    IF ~c.config THEN Failed("failed to create kubeconfig")
    ELSE IF ~c.version.ok THEN Failed("failed to get server version")
    ELSE IF ~c.nodes.ok THEN Failed("failed to list nodes")
    ELSE IF ~c.storageClasses.ok THEN Failed("failed to list storage classes")
    ELSE IF ~c.namespaces.ok THEN Failed("failed to list namespaces")
    ELSE LET nodeInfos == analyzeNodes(c.nodes.items)
         IN  IF nodeInfos.panic # "" THEN [state |-> "panic", err |-> nodeInfos.panic]
             ELSE [state |-> "returned",
                   value |-> [ClusterName    |-> "analyzed-cluster",
                              Version        |-> c.version.GitVersion,
                              Nodes          |-> nodeInfos.infos,
                              Resources      |-> analyzeClusterResources(c.nodes.items),
                              Capabilities   |-> analyzeClusterCapabilities(c),
                              StorageClasses |-> c.storageClasses.items,
                              NetworkPolicy  |-> detectNetworkPolicy(c),
                              Security       |-> analyzeSecurity(c)]]

AnalyzeCluster ==
    /\ analysis.state = "none"
    /\ analysis' = AnalyzeClusterResult(control)
    /\ UNCHANGED <<control, execVars, hostVars, valueVars, planVars>>

----------------------------------------------------------------------------
(* Cluster Analyzer: the clusters AnalyzeCluster is called on *)

\* quantities in thousandths: none, half a unit, 1100m, 1500m, 3 and 4 units
Quantities == {0, 500, 1100, 1500, 3000, 4000}

NodeOf(capacity, allocatable, labels, conditions) ==
    [Capacity |-> capacity, Allocatable |-> allocatable,
     Labels |-> labels, Conditions |-> conditions]

NoResources == [r \in {} |-> 0]

\* nodes that report a cpu quantity only, whatever the two quantities are
CpuNodes ==
    {NodeOf([cpu |-> c], [cpu |-> a], {}, <<"Ready">>) : c \in Quantities, a \in Quantities}

Large == NodeOf(("cpu" :> 4000) @@ ("memory" :> 16000) @@ ("ephemeral-storage" :> 100000),
                ("cpu" :> 3000) @@ ("memory" :> 14500) @@ ("ephemeral-storage" :> 90000),
                {"node-role.kubernetes.io/control-plane"}, <<"Ready">>)
Small == NodeOf(("cpu" :> 1500) @@ ("memory" :> 8000),
                ("cpu" :> 1100) @@ ("memory" :> 8000),
                {}, <<"MemoryPressure", "Ready">>)
\* a node that reports no resources, and one that reports no conditions
Blank == NodeOf(NoResources, NoResources, {"node-role.kubernetes.io/master"}, <<"Ready">>)
Fresh == NodeOf([cpu |-> 4000], [cpu |-> 3000], {}, <<>>)

NodePool == {Large, Small, Blank, Fresh}

NodeLists ==
    {<<n>> : n \in CpuNodes} \cup UNION {[1..k -> NodePool] : k \in 0..MaxNodes}

ClassLists == {<<>>, <<"standard", "fast">>}

AllFound  == [p \in ProbeNames |-> "found"]
AllDenied == [p \in ProbeNames |-> "denied"]
ProbeOutcomes ==
    {f \in [ProbeNames -> {"denied", "empty", "found"}] :
        \A p \in ErrProbes : f[p] # "empty"}

ControlOf(config, version, nodesOk, nodes, classesOk, classes, namespacesOk, probes) ==
    [config         |-> config,
     version        |-> [ok |-> version, GitVersion |-> "v1.28.0"],
     nodes          |-> [ok |-> nodesOk, items |-> nodes],
     storageClasses |-> [ok |-> classesOk, items |-> classes],
     namespaces     |-> [ok |-> namespacesOk],
     probes         |-> probes]

\* every list is answered: the nodes and the storage classes vary
NodeControls ==
    {ControlOf(TRUE, TRUE, TRUE, nodes, TRUE, classes, TRUE, AllFound) :
        nodes \in NodeLists, classes \in ClassLists}

\* every list is answered: the answers to the probes vary
ProbeControls ==
    {ControlOf(TRUE, TRUE, TRUE, <<Large>>, TRUE, <<"standard">>, TRUE, probes) :
        probes \in ProbeOutcomes}

\* the calls before the probes fail or not
FailureControls ==
    {ControlOf(config, version, nodesOk, <<Large, Small>>, classesOk, <<"standard">>,
               namespacesOk, probes) :
        config \in BOOLEAN, version \in BOOLEAN, nodesOk \in BOOLEAN,
        classesOk \in BOOLEAN, namespacesOk \in BOOLEAN, probes \in {AllFound, AllDenied}}

Controls == NodeControls \cup ProbeControls \cup FailureControls

AnalyzeInit ==
    /\ ExecutorIdle
    /\ heap = <<>>
    /\ chart = [Name |-> <<>>, Values |-> Nil]
    /\ cluster = NilCluster
    /\ requirements = Nil
    /\ docs = [defaults |-> NilDoc, overrides |-> NilDoc]
    /\ composed = <<>>
    /\ search = [ok |-> FALSE, charts |-> <<>>, cap |-> 0]
    /\ planOut = NoOutcome
    /\ control \in Controls
    /\ analysis = NoAnalysis

AnalyzeNext == AnalyzeCluster

AnalyzeSpec == AnalyzeInit /\ [][AnalyzeNext]_vars

----------------------------------------------------------------------------
(* Cluster Analyzer: properties *)

Analyzed == analysis.state # "none"
Reached  == control.config /\ control.version.ok
Listed   == control.nodes.ok /\ control.storageClasses.ok /\ control.namespaces.ok
NodesIn  == control.nodes.items
Conditioned == \A i \in 1..Len(NodesIn) : NodesIn[i].Conditions # <<>>

\* the entry of a NodeInfo for a resource
InfoOf(info, r) ==
    CASE r = "cpu" -> info.CPU
      [] r = "memory" -> info.Memory
      [] r = "ephemeral-storage" -> info.Storage

\* the sum over the nodes of what their list (Capacity or Allocatable) holds
RECURSIVE NodeSum(_, _, _)
NodeSum(indexes, list, r) ==
    IF indexes = {} THEN 0
    ELSE LET i == CHOOSE x \in indexes : TRUE
         IN  ResourceOf(NodesIn[i][list], r) + NodeSum(indexes \ {i}, list, r)

\* C22: AnalyzeCluster returns an error only when the control plane cannot be
\* reached or its version cannot be read; with the version read, a listing that
\* fails leaves its item absent (no nodes and zero resources, no storage
\* classes) in an analysis that is returned with its other items as probed.
C22_FailsOnlyOnConnectivity ==
    Analyzed =>
        /\ analysis.state = "failed" => ~Reached
        /\ (Reached /\ analysis.state = "returned") =>
            /\ ~control.nodes.ok =>
                /\ analysis.value.Nodes = <<>>
                /\ analysis.value.Resources = analyzeClusterResources(<<>>)
            /\ ~control.storageClasses.ok => analysis.value.StorageClasses = <<>>
            /\ analysis.value.Capabilities = analyzeClusterCapabilities(control)
            /\ analysis.value.Security = analyzeSecurity(control)

\* C23: whatever probes fail, the analysis is returned, and every flag has the
\* value of its own probe: false when its call is denied, and not changed by
\* the failure of any other probe.
C23_ProbesIndependent ==
    (Analyzed /\ Reached /\ Listed /\ Conditioned) =>
        /\ analysis.state = "returned"
        /\ LET cap == analysis.value.Capabilities
               sec == analysis.value.Security
               p   == control.probes
           IN  /\ cap.HelmInstalled = (p["kube-system"] = "found" /\ p["kube-system secrets"] = "found")
               /\ cap.IngressAvailable = (p["ingresses"] = "found")
               /\ cap.LoadBalancer = (p["services"] = "found")
               /\ cap.PersistentVolume = (p["persistentvolumes"] = "found")
               /\ cap.RBACEnabled = (p["clusterroles"] # "denied")
               /\ cap.NetworkPolicy = (p["networkpolicies"] # "denied")
               /\ sec.RBACEnabled = (p["clusterroles"] # "denied")
               /\ sec.PodSecurityPolicy = (p["podsecuritypolicies"] # "denied")
               /\ sec.NetworkPolicy = (p["networkpolicies"] # "denied")
               /\ sec.SecretsEnabled = (p["secrets"] # "denied")

\* cluster roles are denied and every other probe is answered
C23_Witness ==
    /\ analysis.state = "returned"
    /\ control.probes = [AllFound EXCEPT !["clusterroles"] = "denied"]
    /\ analysis.value.Security =
           [RBACEnabled |-> FALSE, PodSecurityPolicy |-> TRUE,
            NetworkPolicy |-> TRUE, SecretsEnabled |-> TRUE]
    /\ analysis.value.Capabilities.IngressAvailable
    /\ ~analysis.value.Capabilities.RBACEnabled

\* C24: the total and the available quantity of each resource are the sums
\* over the nodes of the capacity and of the allocatable quantity.
C24_ResourcesAreSums ==
    analysis.state = "returned" =>
        LET res == analysis.value.Resources
            all == 1..Len(NodesIn)
        IN  /\ ParseQuantity(res.TotalCPU) = NodeSum(all, "Capacity", "cpu")
            /\ ParseQuantity(res.AvailableCPU) = NodeSum(all, "Allocatable", "cpu")
            /\ ParseQuantity(res.TotalMemory) = NodeSum(all, "Capacity", "memory")
            /\ ParseQuantity(res.AvailableMemory) = NodeSum(all, "Allocatable", "memory")
            /\ ParseQuantity(res.TotalStorage) = NodeSum(all, "Capacity", "ephemeral-storage")
            /\ ParseQuantity(res.AvailableStorage) =
                   NodeSum(all, "Allocatable", "ephemeral-storage")

\* three nodes of cpu capacity 4 and allocatable 3: TotalCPU 12, AvailableCPU 9
C24_Witness ==
    /\ analysis.state = "returned"
    /\ NodesIn = <<Large, Large, Large>>
    /\ analysis.value.Resources.TotalCPU = [digits |-> 12, suffix |-> ""]
    /\ analysis.value.Resources.AvailableCPU = [digits |-> 9, suffix |-> ""]

\* C25: a resource of capacity 0 has percentage 0 whatever is allocatable, and
\* no call ends in a division by zero.
C25_ZeroCapacity ==
    Analyzed =>
        /\ analysis.state = "panic" => analysis.err # "integer divide by zero"
        /\ analysis.state = "returned" =>
            \A i \in 1..Len(NodesIn) : \A r \in Resources :
                ResourceOf(NodesIn[i].Capacity, r) = 0
                    => InfoOf(analysis.value.Nodes[i], r).Percentage = 0

\* capacity 0 with 4 units allocatable
C25_Witness ==
    /\ analysis.state = "returned"
    /\ NodesIn = <<NodeOf([cpu |-> 0], [cpu |-> 4000], {}, <<"Ready">>)>>
    /\ analysis.value.Nodes[1].CPU.Percentage = 0

\* C26: where allocatable <= capacity, the used quantity is capacity minus
\* allocatable, and it is not negative.
C26_UsedIsDifference ==
    analysis.state = "returned" =>
        \A i \in 1..Len(NodesIn) : \A r \in Resources :
            LET capacity    == ResourceOf(NodesIn[i].Capacity, r)
                allocatable == ResourceOf(NodesIn[i].Allocatable, r)
                used        == ParseQuantity(InfoOf(analysis.value.Nodes[i], r).Used)
            IN  allocatable <= capacity =>
                    /\ used = capacity - allocatable
                    /\ used >= 0

\* capacity 1500m and allocatable 1100m: 400m used
C26_Witness ==
    /\ analysis.state = "returned"
    /\ NodesIn = <<Small>>
    /\ analysis.value.Nodes[1].CPU.Used = [digits |-> 400, suffix |-> "m"]
    /\ analysis.value.Nodes[1].Memory.Used = [digits |-> 0, suffix |-> ""]

\* C28: where the capacity is above 0, the percentage is the integer part of
\* allocatable * 100 / capacity taken on the quantities themselves (1500m and
\* 1100m give 73), and it is in 0..100 where allocatable <= capacity.
C28_PercentageOfQuantities ==
    analysis.state = "returned" =>
        \A i \in 1..Len(NodesIn) : \A r \in Resources :
            LET capacity    == ResourceOf(NodesIn[i].Capacity, r)
                allocatable == ResourceOf(NodesIn[i].Allocatable, r)
                percentage  == InfoOf(analysis.value.Nodes[i], r).Percentage
            IN  capacity > 0 =>
                    /\ percentage = (allocatable * 100) \div capacity
                    /\ allocatable <= capacity => percentage \in 0..100

====
